---- MODULE Spec2Model ----
(***************************************************************************)
(* Model of the rug-gmpmee crate: the spowm wrapper (src/src/spown.rs),    *)
(* the FPowmTable wrapper and the process-wide table cache                 *)
(* (src/src/fpowm.rs), and the primality tests (src/src/miller_rabin.rs).  *)
(* The gmpmee C routines behind the FFI calls are not part of the crate;   *)
(* they are modelled from the algorithm descriptions of the specification  *)
(* (sections 4.1, 4.2 and 4.4).                                            *)
(***************************************************************************)
EXTENDS Integers, Sequences, FiniteSets, TLC

\* ------------------------------------------------------------------------
\* Bounds of the model
\* ------------------------------------------------------------------------
MaxLen == 2
MaxBase == 4
MaxExp == 3
MaxModulus == 4
MaxBlockWidth == 2
MaxBitLen == 3
MaxFExp == 7
MaxPrecomp == 1
NumThreads == 2
MaxInitCalls == 3
MaxN == 9
MaxReps == 1
MaxRaw == 6

Bases == 0..MaxBase
Exponents == 0..MaxExp
Moduli == 2..MaxModulus

SeqsUpTo(S, n) == UNION {[1..k -> S] : k \in 0..n}

None == [tag |-> "None"]
Some(v) == [tag |-> "Some", val |-> v]
Ok(v) == [tag |-> "Ok", val |-> v]
Err(e) == [tag |-> "Err", err |-> e]
Panic == [tag |-> "Panic"]

\* ------------------------------------------------------------------------
\* Integer helpers (rug::Integer is arbitrary precision: no wrap-around)
\* ------------------------------------------------------------------------
RECURSIVE PowMod(_, _, _)
\* Integer::pow_mod for a non-negative exponent: b^e mod m in [0, m)
PowMod(b, e, m) ==
    IF e = 0 THEN 1 % m
    ELSE LET h == PowMod(b, e \div 2, m)
             sq == (h * h) % m
         IN IF e % 2 = 0 THEN sq ELSE (sq * b) % m

RECURSIVE BitLen(_)
BitLen(e) == IF e = 0 THEN 0 ELSE 1 + BitLen(e \div 2)

Bit(e, i) == (e \div (2 ^ i)) % 2

\* Integer::as_raw on the elements of a slice, then element [0]: the
\* pointer to the first limb structure of the contiguous slice.  Indexing
\* an empty Vec panics.
RawPtr0(s) == IF Len(s) = 0 THEN Panic ELSE Ok(s)

\* ------------------------------------------------------------------------
\* gmpmee_spowm: simultaneous exponentiation (specification section 4.1)
\* ------------------------------------------------------------------------
RECURSIVE SubsetProduct(_, _, _, _)
\* product of bases[i], i in 1..n, selected by the bits of mask, mod m
SubsetProduct(bases, n, mask, m) ==
    IF n = 0 THEN 1 % m
    ELSE LET rest == SubsetProduct(bases, n - 1, mask, m)
         IN IF Bit(mask, n - 1) = 1 THEN (rest * bases[n]) % m ELSE rest

RECURSIVE MaxBits(_, _)
MaxBits(exponents, n) ==
    IF n = 0 THEN 0
    ELSE LET r == MaxBits(exponents, n - 1)
             b == BitLen(exponents[n])
         IN IF b > r THEN b ELSE r

RECURSIVE BitMask(_, _, _)
\* the subset selected at bit position pos: bit i-1 of the mask is the
\* bit pos of exponents[i]
BitMask(exponents, n, pos) ==
    IF n = 0 THEN 0
    ELSE BitMask(exponents, n - 1, pos) + Bit(exponents[n], pos) * (2 ^ (n - 1))

RECURSIVE SpowmScan(_, _, _, _, _, _)
\* left-to-right scan: one squaring per bit position, one multiplication by
\* the selected subset product
SpowmScan(bases, exponents, n, m, pos, acc) ==
    IF pos < 0 THEN acc
    ELSE LET sq == (acc * acc) % m
             t == SubsetProduct(bases, n, BitMask(exponents, n, pos), m)
         IN SpowmScan(bases, exponents, n, m, pos - 1, (sq * t) % m)

gmpmee_spowm(bases, exponents, len, modulus) ==
    SpowmScan(bases, exponents, len, modulus, MaxBits(exponents, len) - 1, 1)

\* ------------------------------------------------------------------------
\* spowm (src/src/spown.rs)
\* ------------------------------------------------------------------------
\* the result of a call: the returned value and whether gmpmee_spowm ran
SpowmRet(r, ffi) == [ret |-> r, ffi |-> ffi]

spowm_nocheck(bases, exponents, modulus) ==
    LET n == IF Len(bases) < Len(exponents) THEN Len(bases) ELSE Len(exponents)
    IN IF n = 0 THEN SpowmRet(Panic, FALSE)
       ELSE SpowmRet(Ok(gmpmee_spowm(bases, exponents, n, modulus)), TRUE)

spowm_shortlen(bases, exponents, modulus) ==
    IF Len(bases) # Len(exponents) THEN SpowmRet(Err("SPowmParameters"), FALSE)
    ELSE IF Len(bases) = 0 THEN SpowmRet(Panic, FALSE)
    ELSE SpowmRet(Ok(gmpmee_spowm(bases, exponents, Len(bases) - 1, modulus)), TRUE)

spowm(bases, exponents, modulus) ==
    IF Len(bases) # Len(exponents)
    THEN SpowmRet(Err("SPowmParameters"), FALSE)
    ELSE LET len == Len(bases)
             bases_ptr == RawPtr0(bases)
             exponents_ptr == RawPtr0(exponents)
         IN IF bases_ptr.tag = "Panic" \/ exponents_ptr.tag = "Panic"
            THEN SpowmRet(Panic, FALSE)
            ELSE SpowmRet(Ok(gmpmee_spowm(bases_ptr.val, exponents_ptr.val,
                                          len, modulus)), TRUE)

\* ------------------------------------------------------------------------
\* usize and the cast to i64 (64-bit target).  A usize value is
\* k * 2^63 + off with k in {0, 1}; it fits an i64 exactly when k = 0.
\* ------------------------------------------------------------------------
Usize(n) == [k |-> 0, off |-> n]
UsizeOver(n) == [k |-> 1, off |-> n]

TryIntoI64_wrapping(u) == Ok(IF u.k = 0 THEN u.off ELSE 1)

\* usize::try_into::<i64>()
TryIntoI64(u) == IF u.k = 0 THEN Ok(u.off) ELSE Err("TryFromIntError")

\* ------------------------------------------------------------------------
\* gmpmee fixed-base table (specification section 4.2):
\*   table[block][digit] = base^(digit * 2^(block * w)) mod modulus
\* ------------------------------------------------------------------------
CeilDiv(a, b) == (a + b - 1) \div b

RECURSIVE SquareTimes(_, _, _)
\* x^(2^k) mod m by k squarings
SquareTimes(x, k, m) ==
    IF k = 0 THEN x % m ELSE SquareTimes((x * x) % m, k - 1, m)

RECURSIVE BlockGenerator(_, _, _, _)
\* base^(2^(block * w)) mod m
BlockGenerator(base, block, w, m) ==
    IF block = 0 THEN base % m
    ELSE SquareTimes(BlockGenerator(base, block - 1, w, m), w, m)

RECURSIVE RowEntry(_, _, _)
\* g^digit mod m by repeated multiplication
RowEntry(g, digit, m) ==
    IF digit = 0 THEN 1 % m ELSE (RowEntry(g, digit - 1, m) * g) % m

\* gmpmee_fpowm_init: the geometry, no base yet
gmpmee_fpowm_init(modulus, block_width, exponent_bitlen) ==
    LET blocks == CeilDiv(exponent_bitlen, block_width)
    IN [block_width |-> block_width,
        exponent_bitlen |-> exponent_bitlen,
        blocks |-> blocks,
        modulus |-> modulus,
        filled |-> FALSE,
        tabs |-> [b \in 0..(blocks - 1) |-> [d \in 0..(2 ^ block_width - 1) |-> 0]]]

\* gmpmee_fpowm_precomp: every entry recomputed for the base
gmpmee_fpowm_precomp(t, base) ==
    [t EXCEPT !.filled = TRUE,
              !.tabs = [b \in 0..(t.blocks - 1) |->
                          [d \in 0..(2 ^ t.block_width - 1) |->
                              RowEntry(BlockGenerator(base, b, t.block_width, t.modulus),
                                       d, t.modulus)]]]

gmpmee_fpowm_init_precomp(base, modulus, block_width, exponent_bitlen) ==
    gmpmee_fpowm_precomp(gmpmee_fpowm_init(modulus, block_width, exponent_bitlen), base)

\* the digit of the exponent in a block (least significant window = block 0)
WindowDigit(e, block, w) == (e \div (2 ^ (block * w))) % (2 ^ w)

RECURSIVE FpowmProduct(_, _, _)
\* product of the selected entries of the blocks 0..n-1
FpowmProduct(t, e, n) ==
    IF n = 0 THEN 1 % t.modulus
    ELSE (FpowmProduct(t, e, n - 1)
            * t.tabs[n - 1][WindowDigit(e, n - 1, t.block_width)]) % t.modulus

gmpmee_fpowm(t, exponent) == FpowmProduct(t, exponent, t.blocks)

\* ------------------------------------------------------------------------
\* FPowmTable (src/src/fpowm.rs)
\* ------------------------------------------------------------------------
ExponentCast(method, variable) ==
    [variant |-> "FPowmParameters", method |-> method, variable |-> variable]

init_precomp_widthtwice(base, modulus, block_width, exponent_bitlen) ==
    LET block_width_i64 == TryIntoI64(block_width)
        exponent_bitlen_i64 == TryIntoI64(exponent_bitlen)
    IN IF block_width_i64.tag = "Err"
       THEN Err(ExponentCast("FPowmTable::init_precomp", "block_width"))
       ELSE IF exponent_bitlen_i64.tag = "Err"
       THEN Err(ExponentCast("FPowmTable::init_precomp", "exponent_bitlen"))
       ELSE Ok(gmpmee_fpowm_init_precomp(base, modulus,
                                         block_width_i64.val,
                                         block_width_i64.val))

\* FPowmTable::init_precomp
init_precomp(base, modulus, block_width, exponent_bitlen) ==
    LET block_width_i64 == TryIntoI64(block_width)
        exponent_bitlen_i64 == TryIntoI64(exponent_bitlen)
    IN IF block_width_i64.tag = "Err"
       THEN Err(ExponentCast("FPowmTable::init_precomp", "block_width"))
       ELSE IF exponent_bitlen_i64.tag = "Err"
       THEN Err(ExponentCast("FPowmTable::init_precomp", "exponent_bitlen"))
       ELSE Ok(gmpmee_fpowm_init_precomp(base, modulus,
                                         block_width_i64.val,
                                         exponent_bitlen_i64.val))

init_bitlenfirst(modulus, block_width, exponent_bitlen) ==
    LET block_width_i64 == TryIntoI64(block_width)
        exponent_bitlen_i64 == TryIntoI64(exponent_bitlen)
    IN IF exponent_bitlen_i64.tag = "Err"
       THEN Err(ExponentCast("FPowmTable::init", "exponent_bitlen"))
       ELSE IF block_width_i64.tag = "Err"
       THEN Err(ExponentCast("FPowmTable::init", "block_width"))
       ELSE Ok(gmpmee_fpowm_init(modulus, block_width_i64.val,
                                 exponent_bitlen_i64.val))

init_swappedsizes(modulus, block_width, exponent_bitlen) ==
    LET block_width_i64 == TryIntoI64(block_width)
        exponent_bitlen_i64 == TryIntoI64(exponent_bitlen)
    IN IF block_width_i64.tag = "Err"
       THEN Err(ExponentCast("FPowmTable::init", "block_width"))
       ELSE IF exponent_bitlen_i64.tag = "Err"
       THEN Err(ExponentCast("FPowmTable::init", "exponent_bitlen"))
       ELSE Ok(gmpmee_fpowm_init(modulus, exponent_bitlen_i64.val,
                                 block_width_i64.val))

\* FPowmTable::init
init(modulus, block_width, exponent_bitlen) ==
    LET block_width_i64 == TryIntoI64(block_width)
        exponent_bitlen_i64 == TryIntoI64(exponent_bitlen)
    IN IF block_width_i64.tag = "Err"
       THEN Err(ExponentCast("FPowmTable::init", "block_width"))
       ELSE IF exponent_bitlen_i64.tag = "Err"
       THEN Err(ExponentCast("FPowmTable::init", "exponent_bitlen"))
       ELSE Ok(gmpmee_fpowm_init(modulus, block_width_i64.val,
                                 exponent_bitlen_i64.val))

precomp_noop(self, base) == self

\* FPowmTable::precomp: the table after the call
precomp(self, base) == gmpmee_fpowm_precomp(self, base)

\* FPowmTable::fpowm
fpowm(self, exponent) == gmpmee_fpowm(self, exponent)

\* ------------------------------------------------------------------------
\* The cache: static CACHE_FPOWM_TABLE: OnceLock<FPownMTableStatic>
\* ------------------------------------------------------------------------
FPownMTableStatic_swapped(table, modulus, base) ==
    [table |-> table, modulus |-> base, base |-> modulus]

FPownMTableStatic(table, modulus, base) ==
    [table |-> table, modulus |-> modulus, base |-> base]

\* OnceLock::get
OnceLockGet(cell) == cell

OnceLockSet_overwrite(cell, value) == [cell |-> Some(value), res |-> Ok("unit")]

\* OnceLock::set: stores the value when the cell is empty, otherwise leaves
\* the cell alone and hands the value back as the error
OnceLockSet(cell, value) ==
    IF cell = None THEN [cell |-> Some(value), res |-> Ok("unit")]
    ELSE [cell |-> cell, res |-> Err(value)]

is_cache_initialized_never(cell) == FALSE

\* is_cache_initialized
is_cache_initialized(cell) == OnceLockGet(cell).tag = "Some"

cache_base_modulus_swapped(cell) ==
    IF OnceLockGet(cell) = None THEN None
    ELSE Some(<<OnceLockGet(cell).val.modulus, OnceLockGet(cell).val.base>>)

\* cache_base_modulus
cache_base_modulus(cell) ==
    IF OnceLockGet(cell) = None THEN None
    ELSE Some(<<OnceLockGet(cell).val.base, OnceLockGet(cell).val.modulus>>)

\* Option::unwrap
Unwrap(o) == IF o.tag = "Some" THEN Ok(o.val) ELSE Panic

\* ------------------------------------------------------------------------
\* gmpmee Miller-Rabin (specification section 4.4)
\* ------------------------------------------------------------------------
\* the positions of the generator's output sequence; the sequence repeats
\* after them
StreamPositions == {0, 1}
RawValues == 0..MaxRaw
\* the output sequences a default-seeded generator may have
Streams == [StreamPositions -> RawValues]

\* a random state: the output sequence and how many values were taken
RandState(stream, pos) == [stream |-> stream, pos |-> pos]

\* the next output of a random state
RandNext(rand) == rand.stream[rand.pos % Cardinality(StreamPositions)]

\* a uniform witness in [2, n - 2] from the next output, for n >= 5
DrawWitness(rand, n) == 2 + (RandNext(rand) % (n - 3))

RECURSIVE OddPart(_)
\* d with k = 2^s * d, d odd (k > 0)
OddPart(k) == IF k % 2 = 1 THEN k ELSE OddPart(k \div 2)

RECURSIVE TwoAdic(_)
\* s with k = 2^s * d, d odd (k > 0)
TwoAdic(k) == IF k % 2 = 1 THEN 0 ELSE 1 + TwoAdic(k \div 2)

IsPrime(n) == n >= 2 /\ \A d \in 2..(n - 1) : n % d # 0

\* one Miller-Rabin round on odd n > 3 with witness a: TRUE when a does not
\* demonstrate that n is composite
MillerRabinOnce(n, a) ==
    LET d == OddPart(n - 1)
        s == TwoAdic(n - 1)
    IN \/ PowMod(a, d, n) = 1
       \/ \E r \in 0..(s - 1) : PowMod(a, d * (2 ^ r), n) = n - 1

RECURSIVE MillerRabinReps(_, _, _, _)
\* the rounds on odd n > 3: stops at the first witness of compositeness
MillerRabinReps(rand, n, reps, wit) ==
    IF reps <= 0 THEN [res |-> 1, rand |-> rand, wit |-> wit]
    ELSE LET a == DrawWitness(rand, n)
             next == RandState(rand.stream, rand.pos + 1)
         IN IF MillerRabinOnce(n, a)
            THEN MillerRabinReps(next, n, reps - 1, Append(wit, a))
            ELSE [res |-> 0, rand |-> next, wit |-> Append(wit, a)]

\* gmpmee_millerrabin_rs: the C result (0 = composite), the random state
\* after the call and the witnesses drawn
gmpmee_millerrabin_rs(rand, n, reps) ==
    IF n < 2 THEN [res |-> 0, rand |-> rand, wit |-> << >>]
    ELSE IF n \in {2, 3} THEN [res |-> 1, rand |-> rand, wit |-> << >>]
    ELSE IF n % 2 = 0 THEN [res |-> 0, rand |-> rand, wit |-> << >>]
    ELSE MillerRabinReps(rand, n, reps, << >>)

\* gmpmee_millerrabin_safe_rs: n, then (n - 1) / 2, on the one random state
gmpmee_millerrabin_safe_rs(rand, n, reps) ==
    LET first == gmpmee_millerrabin_rs(rand, n, reps)
    IN IF first.res = 0 THEN first
       ELSE LET second == gmpmee_millerrabin_rs(first.rand, (n - 1) \div 2, reps)
            IN [res |-> second.res, rand |-> second.rand,
                wit |-> first.wit \o second.wit]

\* ------------------------------------------------------------------------
\* miller_rabin and miller_rabin_safe (src/src/miller_rabin.rs)
\* ------------------------------------------------------------------------
\* the result of a call: the returned bool and the witnesses the C routine
\* drew from the random state of the call
MrRet(b, r) == [ret |-> b, wit |-> r.wit]

\* ------------------------------------------------------------------------
\* State
\* ------------------------------------------------------------------------
VARIABLES
    sp_in,      \* the arguments of the spowm call, None before it
    sp_out,     \* what the spowm call returned
    fp_new,     \* the arguments and the result of the table constructor
    fp_tab,     \* the FPowmTable owned by the caller, None before creation
    fp_precomps, \* the bases of the precomp calls on fp_tab, in order
    fp_call,    \* the last fpowm call on fp_tab: exponent and result
    CACHE_FPOWM_TABLE,  \* the content of the OnceLock
    pc,         \* per thread: where it is inside a cache function
    frame,      \* per thread: the arguments of its call in progress
    ret,        \* per thread: what its last completed call returned
    trues,      \* how many cache_init_precomp calls returned Ok(true)
    returns,    \* in a recorded run: the cache_init_precomp calls in the
                \* order they returned
    mr_stream,  \* the output sequence of a default-seeded generator
    mr_drawn,   \* how many values all calls together have drawn, counted
                \* modulo the length of the sequence
    mr_first,   \* the first primality call: arguments and result
    mr_call     \* the second primality call: arguments and result

spvars == <<sp_in, sp_out>>

fpvars == <<fp_new, fp_tab, fp_precomps, fp_call>>

cvars == <<CACHE_FPOWM_TABLE, pc, frame, ret, trues, returns>>

mrvars == <<mr_stream, mr_drawn, mr_first, mr_call>>

vars == <<sp_in, sp_out, fp_new, fp_tab, fp_precomps, fp_call,
          CACHE_FPOWM_TABLE, pc, frame, ret, trues, returns,
          mr_stream, mr_drawn, mr_first, mr_call>>

Threads == 1..NumThreads

RandState_default_shared == RandState(mr_stream, mr_drawn)

\* RandState::default(): a new generator with the default seed
RandState_default == RandState(mr_stream, 0)

miller_rabin_negated(n, reps) ==
    LET rand == RandState_default
        r == gmpmee_millerrabin_rs(rand, n, reps)
    IN MrRet(r.res = 0, r)

miller_rabin_noreps(n, reps) ==
    LET rand == RandState_default
        r == gmpmee_millerrabin_rs(rand, n, 0)
    IN MrRet(~(r.res = 0), r)

\* miller_rabin
miller_rabin(n, reps) ==
    LET rand == RandState_default
        r == gmpmee_millerrabin_rs(rand, n, reps)
    IN MrRet(~(r.res = 0), r)

miller_rabin_safe_unsafe(n, reps) ==
    LET rand == RandState_default
        r == gmpmee_millerrabin_rs(rand, n, reps)
    IN MrRet(~(r.res = 0), r)

\* miller_rabin_safe
miller_rabin_safe(n, reps) ==
    LET rand == RandState_default
        r == gmpmee_millerrabin_safe_rs(rand, n, reps)
    IN MrRet(~(r.res = 0), r)

\* everything but the generator's output sequence
InitState ==
    /\ sp_in = None /\ sp_out = None
    /\ fp_new = None /\ fp_tab = None /\ fp_precomps = << >> /\ fp_call = None
    /\ CACHE_FPOWM_TABLE = None
    /\ pc = [t \in Threads |-> "idle"]
    /\ frame = [t \in Threads |-> None]
    /\ ret = [t \in Threads |-> None]
    /\ trues = 0
    /\ returns = << >>
    /\ mr_drawn = 0 /\ mr_first = None /\ mr_call = None

\* no random state is ever made outside the primality tests
Init == InitState /\ mr_stream = None

\* ------------------------------------------------------------------------
\* spowm as a one-call state machine
\* ------------------------------------------------------------------------
CallSpowm ==
    /\ sp_in = None
    /\ \E bases \in SeqsUpTo(Bases, MaxLen), exponents \in SeqsUpTo(Exponents, MaxLen),
          modulus \in Moduli :
        /\ sp_in' = Some([bases |-> bases, exponents |-> exponents,
                          modulus |-> modulus])
        /\ sp_out' = spowm(bases, exponents, modulus)
    /\ UNCHANGED <<fpvars, cvars, mrvars>>

SpecSpowm == Init /\ [][CallSpowm]_vars

\* ------------------------------------------------------------------------
\* An FPowmTable owned by one caller
\* ------------------------------------------------------------------------
BlockWidths == {Usize(w) : w \in 1..MaxBlockWidth} \cup {UsizeOver(0)}
BitLens == {Usize(l) : l \in 1..MaxBitLen} \cup {UsizeOver(0)}
FExponents == 0..MaxFExp

\* what the constructor returned, without the table itself
NewRet(r) == IF r.tag = "Ok" THEN Ok("FPowmTable") ELSE r

\* let tab = FPowmTable::init(&p, w, l)
NewInit ==
    /\ fp_new = None
    /\ \E modulus \in Moduli, block_width \in BlockWidths,
          exponent_bitlen \in BitLens :
        LET r == init(modulus, block_width, exponent_bitlen)
        IN /\ fp_new' = Some([ctor |-> "init", modulus |-> modulus,
                              block_width |-> block_width,
                              exponent_bitlen |-> exponent_bitlen,
                              ret |-> NewRet(r)])
           /\ fp_tab' = IF r.tag = "Ok" THEN Some(r.val) ELSE None
    /\ UNCHANGED <<fp_precomps, fp_call, spvars, cvars, mrvars>>

\* let tab = FPowmTable::init_precomp(&b, &p, w, l)
NewInitPrecomp ==
    /\ fp_new = None
    /\ \E base \in Bases, modulus \in Moduli, block_width \in BlockWidths,
          exponent_bitlen \in BitLens :
        LET r == init_precomp(base, modulus, block_width, exponent_bitlen)
        IN /\ fp_new' = Some([ctor |-> "init_precomp", base |-> base,
                              modulus |-> modulus,
                              block_width |-> block_width,
                              exponent_bitlen |-> exponent_bitlen,
                              ret |-> NewRet(r)])
           /\ fp_tab' = IF r.tag = "Ok" THEN Some(r.val) ELSE None
    /\ UNCHANGED <<fp_precomps, fp_call, spvars, cvars, mrvars>>

\* tab.precomp(&b): the results of earlier fpowm calls say nothing about
\* the table any more
CallPrecomp ==
    /\ fp_tab # None
    /\ Len(fp_precomps) < MaxPrecomp
    /\ \E base \in Bases :
        /\ fp_tab' = Some(precomp(fp_tab.val, base))
        /\ fp_precomps' = Append(fp_precomps, base)
    /\ fp_call' = None
    /\ UNCHANGED <<fp_new, spvars, cvars, mrvars>>

\* tab.fpowm(&e), on a table that holds a base: before the first precomp the
\* entries of a table made by init are unset
CallFpowm ==
    /\ fp_tab # None
    /\ fp_tab.val.filled
    /\ \E e \in FExponents :
        fp_call' = Some([exponent |-> e, res |-> fpowm(fp_tab.val, e)])
    /\ UNCHANGED <<fp_new, fp_tab, fp_precomps, spvars, cvars, mrvars>>

FpNext == NewInit \/ NewInitPrecomp \/ CallPrecomp \/ CallFpowm

SpecFpowm == Init /\ [][FpNext]_vars

\* ------------------------------------------------------------------------
\* Two primality calls, one after the other
\* ------------------------------------------------------------------------
\* the small numbers, and 131 = 2 * 65 + 1: the least prime n whose
\* (n - 1) / 2 is a composite that some witnesses of its range do not expose
MrNumbers == (-1..MaxN) \cup {131}
MrReps == 0..MaxReps

\* the generator library is loaded: its default-seeded output is some fixed
\* sequence
InitMiller == InitState /\ mr_stream \in Streams

\* the call is recorded in mr_first, or in mr_call when it is the second
MrRecord(op, n, reps, r) ==
    LET c == Some([op |-> op, n |-> n, reps |-> reps, ret |-> r.ret, wit |-> r.wit])
    IN /\ IF mr_first = None
          THEN mr_first' = c /\ mr_call' = mr_call
          ELSE mr_call' = c /\ mr_first' = mr_first
       /\ mr_drawn' = (mr_drawn + Len(r.wit)) % Cardinality(StreamPositions)

\* miller_rabin(&n, reps)
CallMillerRabin ==
    /\ mr_call = None
    /\ \E n \in MrNumbers, reps \in MrReps :
        MrRecord("miller_rabin", n, reps, miller_rabin(n, reps))
    /\ UNCHANGED <<mr_stream, spvars, fpvars, cvars>>

\* miller_rabin_safe(&n, reps)
CallMillerRabinSafe ==
    /\ mr_call = None
    /\ \E n \in MrNumbers, reps \in MrReps :
        MrRecord("miller_rabin_safe", n, reps, miller_rabin_safe(n, reps))
    /\ UNCHANGED <<mr_stream, spvars, fpvars, cvars>>

MillerNext == CallMillerRabin \/ CallMillerRabinSafe

SpecMiller == InitMiller /\ [][MillerNext]_vars

\* ------------------------------------------------------------------------
\* The cache functions, called from several threads.  A function is cut
\* into steps at its accesses to CACHE_FPOWM_TABLE.
\* ------------------------------------------------------------------------
CacheBases == {3, 4}
CacheModuli == {4}
\* the sizes of a call: in range, or one of the two beyond i64
CacheSizes == {<<Usize(2), Usize(3)>>,
               <<UsizeOver(0), Usize(3)>>,
               <<Usize(2), UsizeOver(0)>>}
CacheExponents == {7}

\* the value is at most i64::MAX = 2^63 - 1
Fits(u) == u.k = 0

\* the arguments of a cache_init_precomp call in progress
InitFrame(base, modulus, block_width, exponent_bitlen) ==
    [base |-> base, modulus |-> modulus,
     block_width |-> block_width, exponent_bitlen |-> exponent_bitlen]

\* what a thread got back from its last call, with the arguments of the call:
\* for cache_init_precomp the base, the modulus and whether the sizes fit an i64
RetInit(f, val) ==
    [op |-> "cache_init_precomp", base |-> f.base, modulus |-> f.modulus,
     fits |-> Fits(f.block_width) /\ Fits(f.exponent_bitlen), val |-> val]
RetFpown(exponent, val) == [op |-> "cache_fpown", exponent |-> exponent, val |-> val]
RetBaseModulus(val) == [op |-> "cache_base_modulus", val |-> val]

\* the bookkeeping of a return of cache_init_precomp: trues counts the
\* Ok(true), returns lists the calls when the run is recorded
InitReturn(t, r, record) ==
    /\ ret' = [ret EXCEPT ![t] = r]
    /\ trues' = IF r.val = Ok(TRUE) THEN trues + 1 ELSE trues
    /\ returns' = IF record THEN Append(returns, r) ELSE returns

\* cache_init_precomp, up to the test `if !is_cache_initialized()`
cache_init_precomp_check(t, record) ==
    /\ pc[t] = "idle"
    /\ record => Len(returns) < MaxInitCalls
    /\ \E base \in CacheBases, modulus \in CacheModuli, sizes \in CacheSizes :
        LET f == InitFrame(base, modulus, sizes[1], sizes[2])
        IN IF ~is_cache_initialized(CACHE_FPOWM_TABLE)
           THEN /\ pc' = [pc EXCEPT ![t] = "init_set"]
                /\ frame' = [frame EXCEPT ![t] = f]
                /\ UNCHANGED <<ret, trues, returns>>
           ELSE /\ InitReturn(t, RetInit(f, Ok(FALSE)), record)
                /\ UNCHANGED <<pc, frame>>
    /\ UNCHANGED <<CACHE_FPOWM_TABLE, spvars, fpvars, mrvars>>

\* cache_init_precomp, the body of the if: build the table (the error of
\* init_precomp is returned by `?`), set the cell, drop the result of set,
\* return Ok(true)
cache_init_precomp_set(t, record) ==
    /\ pc[t] = "init_set"
    /\ LET f == frame[t]
           table == init_precomp(f.base, f.modulus, f.block_width, f.exponent_bitlen)
       IN IF table.tag = "Err"
          THEN /\ InitReturn(t, RetInit(f, table), record)
               /\ UNCHANGED CACHE_FPOWM_TABLE
          ELSE /\ CACHE_FPOWM_TABLE' =
                      OnceLockSet(CACHE_FPOWM_TABLE,
                                  FPownMTableStatic(table.val, f.modulus, f.base)).cell
               /\ InitReturn(t, RetInit(f, Ok(TRUE)), record)
    /\ pc' = [pc EXCEPT ![t] = "idle"]
    /\ frame' = [frame EXCEPT ![t] = None]
    /\ UNCHANGED <<spvars, fpvars, mrvars>>

\* cache_fpown, up to the test `if !is_cache_initialized()`
cache_fpown_check(t) ==
    /\ pc[t] = "idle"
    /\ \E exponent \in CacheExponents :
        IF ~is_cache_initialized(CACHE_FPOWM_TABLE)
        THEN /\ ret' = [ret EXCEPT ![t] = RetFpown(exponent, None)]
             /\ UNCHANGED <<pc, frame>>
        ELSE /\ pc' = [pc EXCEPT ![t] = "fpown_get"]
             /\ frame' = [frame EXCEPT ![t] = [exponent |-> exponent]]
             /\ UNCHANGED ret
    /\ UNCHANGED <<CACHE_FPOWM_TABLE, trues, returns, spvars, fpvars, mrvars>>

\* cache_fpown: Some(CACHE_FPOWM_TABLE.get().unwrap().table.fpowm(exponent))
cache_fpown_get(t) ==
    /\ pc[t] = "fpown_get"
    /\ LET cache == Unwrap(OnceLockGet(CACHE_FPOWM_TABLE))
           exponent == frame[t].exponent
       IN ret' = [ret EXCEPT ![t] =
                    RetFpown(exponent,
                             IF cache = Panic THEN Panic
                             ELSE Some(fpowm(cache.val.table, exponent)))]
    /\ pc' = [pc EXCEPT ![t] = "idle"]
    /\ frame' = [frame EXCEPT ![t] = None]
    /\ UNCHANGED <<CACHE_FPOWM_TABLE, trues, returns, spvars, fpvars, mrvars>>

\* cache_base_modulus: one read of the cell
call_cache_base_modulus(t) ==
    /\ pc[t] = "idle"
    /\ ret' = [ret EXCEPT ![t] = RetBaseModulus(cache_base_modulus(CACHE_FPOWM_TABLE))]
    /\ UNCHANGED <<CACHE_FPOWM_TABLE, pc, frame, trues, returns, spvars, fpvars, mrvars>>

ThreadStep(t, record) ==
    \/ cache_init_precomp_check(t, record)
    \/ cache_init_precomp_set(t, record)
    \/ cache_fpown_check(t)
    \/ cache_fpown_get(t)
    \/ call_cache_base_modulus(t)

Next == \E t \in Threads : ThreadStep(t, FALSE)

\* any interleaving of the threads
Spec == Init /\ [][Next]_vars

\* one call at a time, recorded in returns: a thread moves only while every
\* other thread is outside the cache functions
SeqNext ==
    \E t \in Threads : (\A u \in Threads \ {t} : pc[u] = "idle") /\ ThreadStep(t, TRUE)

SpecSeq == Init /\ [][SeqNext]_vars

\* ------------------------------------------------------------------------
\* Claims on spowm
\* ------------------------------------------------------------------------
RECURSIVE ProdPowMod(_, _, _, _)
\* the reference value: fold of pow_mod over the pairs (expected_spown)
ProdPowMod(bases, exponents, n, m) ==
    IF n = 0 THEN 1 % m
    ELSE (ProdPowMod(bases, exponents, n - 1, m)
            * PowMod(bases[n], exponents[n], m)) % m

SpCalled == sp_in.tag = "Some"

\* C1: for equal-length non-empty bases and exponents and modulus > 1,
\* spowm returns Ok(r) with r the product of the modular powers reduced
\* into [0, modulus).
C1_SpowmProduct ==
    (SpCalled /\ Len(sp_in.val.bases) = Len(sp_in.val.exponents)
              /\ Len(sp_in.val.bases) > 0)
    => /\ sp_out.ret.tag = "Ok"
       /\ sp_out.ret.val = ProdPowMod(sp_in.val.bases, sp_in.val.exponents,
                                      Len(sp_in.val.bases), sp_in.val.modulus)
       /\ sp_out.ret.val >= 0
       /\ sp_out.ret.val < sp_in.val.modulus

C1_Witness ==
    /\ SpCalled
    /\ sp_in.val.bases = <<2, 4>> /\ sp_in.val.exponents = <<3, 2>>
    /\ sp_in.val.modulus = 3
    /\ sp_out.ret = Ok(2)

\* C9: spowm with bases and exponents of different lengths returns the
\* parameter error; no Ok value is produced and gmpmee_spowm is not run.
C9_MismatchIsError ==
    (SpCalled /\ Len(sp_in.val.bases) # Len(sp_in.val.exponents))
    => /\ sp_out.ret = Err("SPowmParameters")
       /\ sp_out.ffi = FALSE

C9_Witness ==
    /\ SpCalled
    /\ Len(sp_in.val.bases) = 0 /\ Len(sp_in.val.exponents) = 2
    /\ sp_out.ret.tag = "Err"

\* C10: spowm with empty bases and empty exponents returns Ok(1 mod modulus).
C10_EmptyIsIdentity ==
    (SpCalled /\ Len(sp_in.val.bases) = 0 /\ Len(sp_in.val.exponents) = 0)
    => sp_out.ret = Ok(1 % sp_in.val.modulus)

\* ------------------------------------------------------------------------
\* Claims on FPowmTable
\* ------------------------------------------------------------------------
FpCalled == fp_tab # None /\ fp_call # None

\* the table is as its constructor init_precomp left it
AsBuilt == fp_new # None /\ fp_new.val.ctor = "init_precomp" /\ fp_precomps = << >>

\* C2: on a table built by init_precomp(b, m, w, L), fpowm(e) equals
\* pow_mod(b, e, m) for every exponent e >= 0 of bit length at most L.
C2_FpowmIsPowMod ==
    (FpCalled /\ AsBuilt
        /\ BitLen(fp_call.val.exponent) <= fp_new.val.exponent_bitlen.off)
    => fp_call.val.res = PowMod(fp_new.val.base, fp_call.val.exponent,
                                fp_new.val.modulus)

C2_Witness ==
    /\ FpCalled /\ AsBuilt
    /\ fp_tab.val.block_width = 2 /\ fp_tab.val.exponent_bitlen = 3
    /\ fp_call.val.exponent = 7
    /\ fp_new.val.base = 3 /\ fp_new.val.modulus = 4
    /\ fp_call.val.res = 3

\* the table keeps the geometry and the modulus its constructor was given
SameGeometry ==
    /\ Usize(fp_tab.val.block_width) = fp_new.val.block_width
    /\ Usize(fp_tab.val.exponent_bitlen) = fp_new.val.exponent_bitlen
    /\ fp_tab.val.blocks = CeilDiv(fp_new.val.exponent_bitlen.off,
                                   fp_new.val.block_width.off)
    /\ fp_tab.val.modulus = fp_new.val.modulus

\* C11: after precomp(b2) on a table built for b1 the block width, the
\* exponent bit length and the modulus are what they were, and fpowm(e),
\* for e of bit length at most L, is pow_mod(b2, e, m) whatever b1 was.
C11_PrecompReplacesBase ==
    (fp_tab # None /\ fp_new.val.ctor = "init_precomp" /\ Len(fp_precomps) > 0)
    => /\ SameGeometry
       /\ (fp_call # None
            /\ BitLen(fp_call.val.exponent) <= fp_new.val.exponent_bitlen.off)
          => fp_call.val.res = PowMod(fp_precomps[Len(fp_precomps)],
                                      fp_call.val.exponent, fp_new.val.modulus)

C11_Witness ==
    /\ FpCalled
    /\ fp_new.val.ctor = "init_precomp" /\ fp_new.val.base = 2
    /\ fp_new.val.modulus = 4
    /\ fp_tab.val.block_width = 2 /\ fp_tab.val.exponent_bitlen = 3
    /\ fp_precomps = <<3>>
    /\ fp_call.val.exponent = 3
    /\ fp_call.val.res = 3

\* C12: on a table built by init_precomp(b, p, w, L) fpowm(e) equals
\* pow_mod(b, e, p) for every exponent, also one whose bit length exceeds L
\* (test_fpown_big: L = 16, a 1024-bit exponent).
C12_FpowmAnyExponent ==
    (FpCalled /\ AsBuilt)
    => fp_call.val.res = PowMod(fp_new.val.base, fp_call.val.exponent,
                                fp_new.val.modulus)

\* the name the error carries for the constructor that was called
MethodName(ctor) ==
    IF ctor = "init" THEN "FPowmTable::init" ELSE "FPowmTable::init_precomp"

\* C16: init and init_precomp fail with the cast error naming the offending
\* parameter exactly when block_width or exponent_bitlen is above 2^63 - 1,
\* block_width being checked first; a failed call creates no table, and a
\* call with sizes in range returns Ok.
C16_CastOverflow ==
    fp_new # None =>
        LET a == fp_new.val
            method == MethodName(a.ctor)
        IN /\ (a.ret.tag = "Err") <=> (a.block_width.k > 0 \/ a.exponent_bitlen.k > 0)
           /\ a.block_width.k > 0
                => a.ret = Err(ExponentCast(method, "block_width"))
           /\ (a.block_width.k = 0 /\ a.exponent_bitlen.k > 0)
                => a.ret = Err(ExponentCast(method, "exponent_bitlen"))
           /\ a.ret.tag = "Err" => fp_tab = None
           /\ a.ret.tag # "Err" => (a.ret = Ok("FPowmTable") /\ fp_tab # None)

C16_Witness ==
    /\ fp_new # None
    /\ fp_new.val.ctor = "init"
    /\ fp_new.val.block_width = UsizeOver(0)
    /\ fp_new.val.exponent_bitlen = UsizeOver(0)
    /\ fp_new.val.ret = Err(ExponentCast("FPowmTable::init", "block_width"))
    /\ fp_tab = None

\* C19: init(m, w, L) followed by precomp(b) leaves the same table as
\* init_precomp(b, m, w, L): the same geometry and entries, and the same
\* fpowm result for every exponent.
C19_InitThenPrecomp ==
    (fp_tab # None /\ fp_new.val.ctor = "init" /\ Len(fp_precomps) = 1)
    => LET a == fp_new.val
           other == init_precomp(fp_precomps[1], a.modulus, a.block_width,
                                 a.exponent_bitlen)
       IN /\ other.tag = "Ok"
          /\ fp_tab.val = other.val
          /\ fp_call # None
                => fp_call.val.res = fpowm(other.val, fp_call.val.exponent)

C19_Witness ==
    /\ FpCalled
    /\ fp_new.val.ctor = "init" /\ fp_new.val.modulus = 4
    /\ fp_new.val.block_width = Usize(2) /\ fp_new.val.exponent_bitlen = Usize(3)
    /\ fp_precomps = <<3>>
    /\ fp_call.val.exponent = 7
    /\ fp_call.val.res = 3

\* ------------------------------------------------------------------------
\* Claims on the cache
\* ------------------------------------------------------------------------
CacheInitialized == CACHE_FPOWM_TABLE # None

\* the last call that thread t completed was op
LastCall(t, op) == ret[t] # None /\ ret[t].op = op

ReportsPair(base, modulus) ==
    cache_base_modulus(CACHE_FPOWM_TABLE) = Some(<<base, modulus>>)

\* C3, as stated: in a sequential run the first call of cache_init_precomp
\* returns true and cache_base_modulus() reports its base and modulus; every
\* later call returns false.
C3_FirstCallTrue ==
    Len(returns) >= 1
    => /\ returns[1].val = Ok(TRUE)
       /\ ReportsPair(returns[1].base, returns[1].modulus)
       /\ \A i \in 2..Len(returns) : returns[i].val = Ok(FALSE)

\* C3, amended: in a sequential run the first call whose sizes fit an i64
\* returns true and cache_base_modulus() reports its base and modulus from
\* then on; every later call, whatever its arguments, returns false; the
\* calls before it return the cast error and leave the cache uninitialized.
C3_FirstFittingCallTrue ==
    /\ \A i \in 1..Len(returns) :
          IF \E j \in 1..(i - 1) : returns[j].fits
          THEN returns[i].val = Ok(FALSE)
          ELSE IF returns[i].fits
          THEN /\ returns[i].val = Ok(TRUE)
               /\ ReportsPair(returns[i].base, returns[i].modulus)
          ELSE returns[i].val.tag = "Err"
    /\ (\A i \in 1..Len(returns) : ~returns[i].fits) => ~CacheInitialized

C3_Witness ==
    /\ Len(returns) = 3
    /\ returns[1].val.tag = "Err"
    /\ returns[2].val = Ok(TRUE)
    /\ returns[3].val = Ok(FALSE)
    /\ returns[3].base # returns[2].base
    /\ ReportsPair(returns[2].base, returns[2].modulus)

\* the calls 1..i of the recorded run all had a size beyond i64
AllOverflow(i) == \A j \in 1..i : ~returns[j].fits

\* C17: in a sequential run a cache_init_precomp call with a size beyond i64
\* on the uninitialized cache returns the cast error of init_precomp and
\* leaves the cache uninitialized, so that cache_base_modulus() and
\* cache_fpown() still return None; the first later call with sizes in range
\* initializes the cache and returns true.
C17_OverflowLeavesUninitialized ==
    /\ \A i \in 1..Len(returns) :
          AllOverflow(i) =>
              /\ returns[i].val.tag = "Err"
              /\ returns[i].val.err.variant = "FPowmParameters"
              /\ returns[i].val.err.method = "FPowmTable::init_precomp"
              /\ returns[i].val.err.variable \in {"block_width", "exponent_bitlen"}
    /\ AllOverflow(Len(returns)) =>
          /\ ~CacheInitialized
          /\ cache_base_modulus(CACHE_FPOWM_TABLE) = None
          /\ \A t \in Threads :
                (LastCall(t, "cache_fpown") \/ LastCall(t, "cache_base_modulus"))
                    => ret[t].val = None
    /\ \A i \in 2..Len(returns) :
          (AllOverflow(i - 1) /\ returns[i].fits) =>
              /\ returns[i].val = Ok(TRUE)
              /\ ReportsPair(returns[i].base, returns[i].modulus)

C17_Witness ==
    /\ Len(returns) = 2
    /\ returns[1].val = Err(ExponentCast("FPowmTable::init_precomp", "block_width"))
    /\ returns[2].val = Ok(TRUE)
    /\ ReportsPair(returns[2].base, returns[2].modulus)
    /\ \E t \in Threads : LastCall(t, "cache_fpown") /\ ret[t].val = None

\* C4: among all calls of cache_init_precomp, racing ones included, at most
\* one returns Ok(true).
C4_AtMostOneTrue == trues <= 1

\* C5: whenever a call cache_init_precomp(b, m, w, L) returned Ok(true),
\* cache_base_modulus() reports (b, m), under every interleaving.
C5_TrueMeansStored ==
    \A t \in Threads :
        (LastCall(t, "cache_init_precomp") /\ ret[t].val = Ok(TRUE))
        => ReportsPair(ret[t].base, ret[t].modulus)

\* C6: once the cache is initialized its content never changes and it never
\* becomes uninitialized again, whatever calls follow.
C6_CacheNeverChanges ==
    [][CacheInitialized => CACHE_FPOWM_TABLE' = CACHE_FPOWM_TABLE]_vars

C6_Witness ==
    /\ CacheInitialized
    /\ \E t \in Threads :
          /\ LastCall(t, "cache_init_precomp")
          /\ ret[t].val = Ok(TRUE)
          /\ ret[t].base # CACHE_FPOWM_TABLE.val.base
    /\ \E t \in Threads : LastCall(t, "cache_fpown") /\ ret[t].val.tag = "Some"

\* C7: a reader that finds the cache initialized sees the complete table
\* together with the base and modulus it was built from: the stored table
\* is the filled table of the stored base and modulus, unwrap never fails,
\* and what the readers return comes from that table and that pair.
C7_ReadersSeeBuiltTable ==
    /\ CacheInitialized =>
          LET c == CACHE_FPOWM_TABLE.val
          IN /\ c.table.filled
             /\ c.table = gmpmee_fpowm_init_precomp(c.base, c.modulus,
                                                    c.table.block_width,
                                                    c.table.exponent_bitlen)
    /\ \A t \in Threads :
          /\ pc[t] = "fpown_get" => CacheInitialized
          /\ ret[t] # None => ret[t].val # Panic
          /\ (LastCall(t, "cache_base_modulus") /\ ret[t].val.tag = "Some")
                => /\ CacheInitialized
                   /\ ret[t].val.val = <<CACHE_FPOWM_TABLE.val.base,
                                         CACHE_FPOWM_TABLE.val.modulus>>
          /\ (LastCall(t, "cache_fpown") /\ ret[t].val.tag = "Some")
                => /\ CacheInitialized
                   /\ ret[t].val.val = gmpmee_fpowm(
                          gmpmee_fpowm_init_precomp(
                              CACHE_FPOWM_TABLE.val.base,
                              CACHE_FPOWM_TABLE.val.modulus,
                              CACHE_FPOWM_TABLE.val.table.block_width,
                              CACHE_FPOWM_TABLE.val.table.exponent_bitlen),
                          ret[t].exponent)

C7_Witness ==
    \E t, u \in Threads :
        /\ LastCall(t, "cache_fpown") /\ ret[t].val.tag = "Some"
        /\ pc[u] = "init_set"
        /\ frame[u].base # CACHE_FPOWM_TABLE.val.base

\* thread t returns from cache_fpown or cache_base_modulus in this step
ReaderReturns(t) ==
    /\ <<pc[t], ret[t]>> # <<pc'[t], ret'[t]>>
    /\ pc'[t] = "idle"
    /\ ret'[t].op \in {"cache_fpown", "cache_base_modulus"}

C8_NoneIffUninitialized ==
    \A t \in Threads :
        ReaderReturns(t) => ((ret'[t].val = None) <=> ~CacheInitialized)

C8_SomeIsPowMod ==
    \A t \in Threads :
        (LastCall(t, "cache_fpown") /\ ret[t].val.tag = "Some")
        => LET bm == cache_base_modulus(CACHE_FPOWM_TABLE)
               e == ret[t].exponent
           IN /\ bm.tag = "Some"
              /\ ret[t].val.val = fpowm(CACHE_FPOWM_TABLE.val.table, e)
              /\ BitLen(e) <= CACHE_FPOWM_TABLE.val.table.exponent_bitlen
                    => ret[t].val.val = PowMod(bm.val[1], e, bm.val[2])

\* C8: cache_fpown and cache_base_modulus return None exactly while the
\* cache is uninitialized; afterwards cache_fpown(e) returns Some of the
\* cached table's fpowm(e), which is pow_mod(base, e, modulus) for the pair
\* that cache_base_modulus() reports, for e of bit length at most L.
C8_ReadersNoneOrPowMod ==
    [][C8_NoneIffUninitialized]_vars /\ []C8_SomeIsPowMod

C8_Witness ==
    \E t, u \in Threads :
        /\ LastCall(t, "cache_fpown") /\ ret[t].exponent = 7
        /\ ret[t].val = Some(3)
        /\ LastCall(u, "cache_base_modulus") /\ ret[u].val = Some(<<3, 4>>)

\* ------------------------------------------------------------------------
\* Claims on the primality tests
\* ------------------------------------------------------------------------
\* the calls made so far
MrCalls == {c.val : c \in {mr_first, mr_call} \ {None}}

\* C13: miller_rabin returns false for n < 2 and for even n > 2, and true
\* for n = 2 and n = 3, for every reps, and draws no witness in these cases.
C13_EdgeCases ==
    \A c \in MrCalls :
        c.op = "miller_rabin" =>
            /\ (c.n < 2 \/ (c.n > 2 /\ c.n % 2 = 0))
                    => (c.ret = FALSE /\ c.wit = << >>)
            /\ c.n \in {2, 3} => (c.ret = TRUE /\ c.wit = << >>)

C13_Witness ==
    /\ mr_first # None /\ mr_call # None
    /\ mr_first.val.op = "miller_rabin" /\ mr_first.val.n = 3
    /\ mr_first.val.ret = TRUE
    /\ mr_call.val.op = "miller_rabin" /\ mr_call.val.n = 4
    /\ mr_call.val.reps = 1 /\ mr_call.val.ret = FALSE

WitnessFree(k) == k < 2 \/ k % 2 = 0 \/ IsPrime(k)

SameCall ==
    /\ mr_first # None /\ mr_call # None
    /\ mr_first.val.op = mr_call.val.op
    /\ mr_first.val.n = mr_call.val.n
    /\ mr_first.val.reps = mr_call.val.reps

\* C18: two calls of the same function with the same n and reps draw the
\* same witnesses and return the same bool, and the witnesses of every
\* miller_rabin call are the first outputs of a default-seeded generator.
C18_Deterministic ==
    /\ SameCall => (mr_first.val.ret = mr_call.val.ret
                        /\ mr_first.val.wit = mr_call.val.wit)
    /\ \A c \in MrCalls :
        c.op = "miller_rabin" =>
            \A i \in 1..Len(c.wit) :
                c.wit[i] = DrawWitness(RandState(mr_stream, i - 1), c.n)

C18_Witness ==
    /\ SameCall
    /\ mr_first.val.op = "miller_rabin" /\ mr_first.val.n = 9
    /\ mr_first.val.reps = 1
    /\ mr_stream[0] = 0 /\ mr_stream[1] = 1
    /\ mr_call.val.wit = <<2>>
    /\ mr_call.val.ret = FALSE
====
